---- MODULE Spec2Model ----
(***************************************************************************)
(* State machine of the GiftWithPurchase custom element                    *)
(* (src/src/gift-with-purchase.js).                                        *)
(*                                                                         *)
(* Amounts (threshold, currentAmount, remaining) are held in hundredths    *)
(* of the currency unit, so the attribute threshold="75.00" is 7500 and a  *)
(* cart whose calculated_subtotal is 8000 gives currentAmount 80.00, held  *)
(* as 8000.                                                                *)
(***************************************************************************)
EXTENDS Integers, Sequences, FiniteSets, Bags, TLC

(***************************************************************************)
(* Bounds of the model.                                                    *)
(***************************************************************************)
\* line items of one cart snapshot
MaxItems == 2
\* gateway calls awaiting their response at one time
MaxInFlight == 2
\* the timers pending at once when the element is put back into the document
MaxTimers == 1

(***************************************************************************)
(* Program constants.                                                      *)
(***************************************************************************)
\* setTimeout(..., 300) of #handleCartDataChange
DebounceDelay == 300
\* setTimeout(..., 100) of #attachListeners
RetryDelay == 100

\* time advances in steps of the longer of the two delays: a timer is either
\* still inside its delay or due
TickStep == DebounceDelay
\* or, where the restart of the delay matters, in halves of it
HalfDelay == DebounceDelay \div 2

(***************************************************************************)
(* JavaScript values.                                                      *)
(***************************************************************************)
\* null (a missing attribute)
Null == [t |-> "null", v |-> ""]
\* the string s
Str(s) == [t |-> "str", v |-> s]
\* the number whose decimal notation is d
Num(d) == [t |-> "num", v |-> d]

\* Boolean(x) for the identifiers above: null and '' are falsy
Truthy(x) == x.t # "null" /\ ~(x.t = "str" /\ x.v = "")

\* x.toString() throws a TypeError on null
CanToString(x) == x.t # "null"
\* x.toString(): a number gives its decimal notation, a string itself
ToStr(x) == x.v

\* a numeric argument before parsing: a number of hundredths, a value that
\* parses to NaN ('abc', null, undefined), or undefined
NumArg(n) == [k |-> "num", n |-> n]
NaNArg == [k |-> "nan", n |-> 0]
Undefined == [k |-> "undef", n |-> 0]

\* parseFloat(x) || 0
ParseFloatOr0(x) == IF x.k = "num" THEN x.n ELSE 0

(***************************************************************************)
(* Inputs.                                                                 *)
(***************************************************************************)
GiftVariant == "12345678"
OtherVariant == "87654321"

\* the variant-id attribute and the argument of setVariantId
VariantInputs == {Null, Str(""), Str(GiftVariant)}

\* the current attribute, the argument of setCurrentAmount
CurrentInputs == {NaNArg, NumArg(4500), NumArg(7500)}
\* the threshold attribute
ThresholdAttrs == {NaNArg, NumArg(7500)}
\* the argument of setThreshold
ThresholdInputs == {NaNArg, NumArg(7500)}
\* a threshold attribute or argument of setThreshold, a negative number included
AnyThresholds == {NaNArg, NumArg(-2500), NumArg(7500)}
\* cart.calculated_subtotal of a notification that is processed
SubtotalInputs == {NumArg(4500), NumArg(7500)}

\* the line items a cart can hold: the gift with a numeric and with a string
\* variant id, the gift's variant without the marker (bought by the
\* customer), and a marked line of another variant (another promotion)
Pool ==
  << [variant_id |-> Num(GiftVariant),  gwp_item |-> "",     key |-> "k1"],
     [variant_id |-> Num(GiftVariant),  gwp_item |-> "true", key |-> "k2"],
     [variant_id |-> Str(GiftVariant),  gwp_item |-> "true", key |-> "k3"],
     [variant_id |-> Num(OtherVariant), gwp_item |-> "true", key |-> "k4"] >>

\* the item lists of the snapshots: up to MaxItems neighbouring lines of Pool
ItemLists ==
  { SubSeq(Pool, w[1], w[2]) :
      w \in { v \in (1..Len(Pool)) \X (0..Len(Pool)) :
                v[2] >= v[1] - 1 /\ v[2] - v[1] + 1 <= MaxItems } }

\* event.detail: a cart with a subtotal and an items array ...
CartsWithItems ==
  { [subtotal |-> s, hasItems |-> TRUE, items |-> l] : s \in SubtotalInputs, l \in ItemLists }
\* ... or with a subtotal and no items property
CartsWithoutItems ==
  { [subtotal |-> s, hasItems |-> FALSE, items |-> << >>] : s \in SubtotalInputs }
ValidCarts == CartsWithItems \cup CartsWithoutItems
\* a detail whose calculated_subtotal is undefined
NoSubtotalCart == [subtotal |-> Undefined, hasItems |-> TRUE, items |-> << >>]
\* the cart the setters pass: { items: [] }
EmptyCart == [subtotal |-> Undefined, hasItems |-> TRUE, items |-> << >>]

\* the outcome of one fetch: a 2xx response, a non-2xx response, a rejected
\* fetch (transport failure), a 2xx response whose body is not JSON
AddOutcomes == {"ok", "http", "net", "badjson"}
LineOutcomes == {"ok", "http", "net"}
\* what the fetches of one removal can meet between them
RemovalOutcomes == (SUBSET LineOutcomes) \ {{}}

VARIABLES
  written,         \* the attribute last written after construction, and its value
  threshold,       \* #threshold
  currentAmount,   \* #currentAmount
  variantId,       \* #variantId
  isActive,        \* #isActive
  isAdded,         \* #isAdded
  promoEnded,      \* #promoEnded
  messageAbove,    \* #messageAbove: TRUE when the attribute is set
  messageBelow,    \* #messageBelow: TRUE when the attribute is set
  hasMessageEl,    \* a [data-content-gwp-message] child exists
  cartDialog,      \* #cartDialog: TRUE when it refers to the host
  debounceTimer,   \* #debounceTimer: a timer id, 0 for null
  connected,       \* the element is in the document
  hostInDom,       \* a cart-dialog ancestor exists
  listening,       \* the host holds the element's listener
  timers,          \* the pending timers of the event loop
  inflight,        \* the kinds of the gateway calls awaiting their response (a bag)
  stateAttr,       \* the state attribute of the element
  display,         \* this.style.display
  message,         \* the message slot: its text and display
  requests,        \* the gateway calls issued by the last step
  events,          \* the events dispatched by the last step
  uncaught,        \* an exception left a handler of the element
  lastNotified,    \* observer: the last valid notification and its age
  lastProcessed,   \* observer: the last snapshot processed, what it caused
  hist             \* observer: the last recomputes of cart snapshots

fields == << threshold, currentAmount, variantId, isActive, isAdded, promoEnded >>
config == << messageAbove, messageBelow, hasMessageEl >>
markup == << written >>
wiring == << cartDialog, debounceTimer, connected, hostInDom, listening, timers >>
dom == << stateAttr, display, message >>
outputs == << requests, events, uncaught >>
observers == << lastNotified, lastProcessed, hist >>
vars == << markup, fields, config, wiring, dom, inflight, outputs, observers >>

(***************************************************************************)
(* Helpers.                                                                *)
(***************************************************************************)
Max(a, b) == IF a >= b THEN a ELSE b
Abs(a) == IF a < 0 THEN 0 - a ELSE a

RECURSIVE KindsOf(_)
\* the bag of the kinds of a sequence of gateway calls
KindsOf(q) ==
  IF q = << >> THEN EmptyBag ELSE SetToBag({Head(q).kind}) (+) KindsOf(Tail(q))

\* the keys of a list of line items
LineKeys(lines) == { lines[i].key : i \in 1..Len(lines) }

\* fetch('/cart/add.js', {items: [{id: variantId, quantity: 1, properties}]})
AddCall(vid) == [kind |-> "add", variant |-> vid, keys |-> {}]
\* Promise.all of one fetch('/cart/change.js', {id: key, quantity: 0}) per line
RemoveCall(lines) == [kind |-> "remove", variant |-> Null, keys |-> LineKeys(lines)]

\* new CustomEvent('gwp:added' | 'gwp:removed', {detail: {variantId}})
GwpAdded(vid) == [type |-> "gwp:added", action |-> "", variantId |-> vid]
GwpRemoved(vid) == [type |-> "gwp:removed", action |-> "", variantId |-> vid]
\* new CustomEvent('gwp:error', {detail: {action, error}})
GwpError(action) == [type |-> "gwp:error", action |-> action, variantId |-> Null]

\* the number of gateway calls of one kind in a sequence of calls
CountKind(q, kind) == Cardinality({ i \in 1..Len(q) : q[i].kind = kind })
\* the number of events of one type and action in a sequence of events
CountEvents(q, type, action) ==
  Cardinality({ i \in 1..Len(q) : q[i].type = type /\ q[i].action = action })

(***************************************************************************)
(* The running handler's view of the instance: the fields and the DOM it   *)
(* may write, the gateway calls it has issued and the events it has        *)
(* dispatched so far.                                                      *)
(***************************************************************************)
Cur ==
  [ threshold |-> threshold, currentAmount |-> currentAmount,
    isActive |-> isActive, isAdded |-> isAdded,
    stateAttr |-> stateAttr, display |-> display, message |-> message,
    reqs |-> << >>, evs |-> << >> ]

\* remaining.toFixed(2).replace(/\.00$/, ''): sign, integer part and, unless
\* they are 00, the two decimals
FormatRemaining(r) ==
  [ neg |-> r < 0, whole |-> Abs(r) \div 100,
    decimals |-> IF Abs(r) % 100 = 0 THEN "" ELSE "2", cents |-> Abs(r) % 100 ]

NoAmount == [neg |-> FALSE, whole |-> 0, decimals |-> "", cents |-> 0]

\* the slot before the first render: the markup's own content
SlotUntouched == [text |-> "markup", amount |-> NoAmount, display |-> ""]

\* #updateMessages
UpdateMessages(s) ==
  IF ~hasMessageEl THEN s
  ELSE IF s.isActive /\ messageAbove
    THEN [s EXCEPT !.message = [text |-> "above", amount |-> NoAmount, display |-> "block"]]
  ELSE IF ~s.isActive /\ messageBelow
    THEN [s EXCEPT !.message =
            [text |-> "below", amount |-> FormatRemaining(s.threshold - s.currentAmount),
             display |-> "block"]]
  ELSE [s EXCEPT !.message = [text |-> "", amount |-> NoAmount, display |-> "none"]]

\* #updateVisualState
UpdateVisualState(s) ==
  IF promoEnded THEN [s EXCEPT !.stateAttr = "ended", !.display = "none"]
  ELSE IF s.isAdded THEN [s EXCEPT !.stateAttr = "added", !.display = ""]
  ELSE IF s.isActive THEN [s EXCEPT !.stateAttr = "active", !.display = ""]
  ELSE [s EXCEPT !.display = ""]

\* the filter comparing the variant ids as they are, not as strings
IsGiftLine_StrictEquality(lineItem, vid) ==
  lineItem.variant_id = vid /\ lineItem.gwp_item = "true"

\* the filter taking every line of the variant, marked or not
IsGiftLine_IgnoresMarker(lineItem, vid) == ToStr(lineItem.variant_id) = ToStr(vid)

\* the filter of #checkGiftInCart and #removeGiftFromCart
IsGiftLine(lineItem, vid) ==
  ToStr(lineItem.variant_id) = ToStr(vid) /\ lineItem.gwp_item = "true"

GiftLines(items, vid) == SelectSeq(items, LAMBDA lineItem : IsGiftLine(lineItem, vid))

\* #removeAllGiftItems up to its await: one fetch per gift line is issued
RemoveAllGiftItems(s, giftLines) == [s EXCEPT !.reqs = Append(@, RemoveCall(giftLines))]

\* #addGiftToCart flipping #isAdded before its fetch has settled
AddGiftToCart_Optimistic(s) ==
  [s EXCEPT !.reqs = Append(@, AddCall(variantId)), !.isAdded = TRUE]

\* #addGiftToCart up to its await: the fetch is issued
AddGiftToCart(s) == [s EXCEPT !.reqs = Append(@, AddCall(variantId))]

\* #removeGiftFromCart up to its await. cart.items.filter throws when items is
\* undefined, and the filter's callback throws on its first item when
\* #variantId is null; the catch dispatches gwp:error
RemoveGiftFromCart(s, cart) ==
  IF ~cart.hasItems \/ (Len(cart.items) > 0 /\ ~CanToString(variantId))
    THEN [s EXCEPT !.evs = Append(@, GwpError("remove"))]
  ELSE LET giftLines == GiftLines(cart.items, variantId) IN
    IF Len(giftLines) = 0 THEN [s EXCEPT !.isAdded = FALSE]
    ELSE RemoveAllGiftItems(s, giftLines)

\* #checkGiftInCart
CheckGiftInCart(s, cart) ==
  IF ~cart.hasItems \/ ~Truthy(variantId) THEN [s EXCEPT !.isAdded = FALSE]
  ELSE LET giftLines == GiftLines(cart.items, variantId)
           s1 == [s EXCEPT !.isAdded = Len(giftLines) > 0] IN
    IF promoEnded /\ Len(giftLines) > 0 THEN RemoveAllGiftItems(s1, giftLines) ELSE s1

\* #updateState deciding on the level of isActive, not on its change
UpdateState_LevelTriggered(s, cart) ==
  LET s1 == [s EXCEPT !.isActive = s.currentAmount >= s.threshold /\ ~promoEnded]
      s2 == IF promoEnded THEN RemoveGiftFromCart(s1, cart) ELSE s1
      s3 == IF s2.isActive /\ ~s2.isAdded /\ Truthy(variantId)
              THEN AddGiftToCart(s2)
            ELSE IF ~s2.isActive /\ s2.isAdded /\ Truthy(variantId)
              THEN RemoveGiftFromCart(s2, cart)
            ELSE s2
  IN UpdateMessages(UpdateVisualState(s3))

\* #updateState deriving isActive from the amounts alone
UpdateState_IgnoresPromoEnded(s, cart) ==
  LET wasActive == s.isActive
      s1 == [s EXCEPT !.isActive = s.currentAmount >= s.threshold]
      s2 == IF promoEnded THEN RemoveGiftFromCart(s1, cart) ELSE s1
      s3 == IF s2.isActive /\ ~wasActive /\ ~s2.isAdded /\ Truthy(variantId)
              THEN AddGiftToCart(s2)
            ELSE IF ~s2.isActive /\ wasActive /\ s2.isAdded /\ Truthy(variantId)
              THEN RemoveGiftFromCart(s2, cart)
            ELSE s2
  IN UpdateMessages(UpdateVisualState(s3))

\* #updateState adding the gift without looking at #variantId
UpdateState_AddsWithoutVariant(s, cart) ==
  LET wasActive == s.isActive
      s1 == [s EXCEPT !.isActive = s.currentAmount >= s.threshold /\ ~promoEnded]
      s2 == IF promoEnded THEN RemoveGiftFromCart(s1, cart) ELSE s1
      s3 == IF s2.isActive /\ ~wasActive /\ ~s2.isAdded
              THEN AddGiftToCart(s2)
            ELSE IF ~s2.isActive /\ wasActive /\ s2.isAdded /\ Truthy(variantId)
              THEN RemoveGiftFromCart(s2, cart)
            ELSE s2
  IN UpdateMessages(UpdateVisualState(s3))

\* #updateState
UpdateState(s, cart) ==
  LET wasActive == s.isActive
      s1 == [s EXCEPT !.isActive = s.currentAmount >= s.threshold /\ ~promoEnded]
      s2 == IF promoEnded THEN RemoveGiftFromCart(s1, cart) ELSE s1
      s3 == IF s2.isActive /\ ~wasActive /\ ~s2.isAdded /\ Truthy(variantId)
              THEN AddGiftToCart(s2)
            ELSE IF ~s2.isActive /\ wasActive /\ s2.isAdded /\ Truthy(variantId)
              THEN RemoveGiftFromCart(s2, cart)
            ELSE s2
  IN UpdateMessages(UpdateVisualState(s3))

\* the callback of the debounce timer, after it has cleared #debounceTimer
ProcessSnapshot(s, cart) ==
  LET s1 == [s EXCEPT !.currentAmount = ParseFloatOr0(cart.subtotal)]
  IN UpdateState(CheckGiftInCart(s1, cart), cart)

\* setCurrentAmount
SetCurrentAmountBody(s, amount) ==
  UpdateMessages(UpdateState([s EXCEPT !.currentAmount = ParseFloatOr0(amount)], EmptyCart))

\* setThreshold
SetThresholdBody(s, amount) ==
  UpdateMessages(UpdateState([s EXCEPT !.threshold = ParseFloatOr0(amount)], EmptyCart))

\* the handler's writes become the state of the instance
Commit(s) ==
  /\ BagCardinality(inflight) + Len(s.reqs) <= MaxInFlight
  /\ threshold' = s.threshold
  /\ currentAmount' = s.currentAmount
  /\ isActive' = s.isActive
  /\ isAdded' = s.isAdded
  /\ stateAttr' = s.stateAttr
  /\ display' = s.display
  /\ message' = s.message
  /\ requests' = s.reqs
  /\ inflight' = inflight (+) KindsOf(s.reqs)
  /\ events' = s.evs
  /\ uncaught' = uncaught

\* a step that runs no code of the element issues and dispatches nothing
Quiet == requests' = << >> /\ events' = << >> /\ uncaught' = uncaught

(***************************************************************************)
(* Timers of the event loop. A timer runs no earlier than its delay.       *)
(***************************************************************************)
TimerIds == { t.id : t \in timers }

\* the id setTimeout returns: one no pending timer and no kept handle uses
NewTimerId(kept) == CHOOSE n \in 1..(Cardinality(timers) + 2) : n \notin TimerIds \cup {kept}

\* clearTimeout(id)
ClearTimeout(ts, id) == { t \in ts : t.id # id }

DebounceTimerOf(id, cart) ==
  [id |-> id, kind |-> "debounce", remaining |-> DebounceDelay, cart |-> cart]
RetryTimerOf(id) ==
  [id |-> id, kind |-> "retry", remaining |-> RetryDelay, cart |-> EmptyCart]

(***************************************************************************)
(* Observers. They record what the host and the event loop did; no handler *)
(* reads them.                                                             *)
(***************************************************************************)
\* no valid notification awaits its recompute
NotNotified ==
  [pending |-> FALSE, cart |-> EmptyCart, elapsed |-> 0, burst |-> FALSE, dropped |-> FALSE]
\* the host has just delivered cart; burst: an earlier notification was
\* still awaiting its recompute
Notified(cart, burst) ==
  [pending |-> TRUE, cart |-> cart, elapsed |-> 0, burst |-> burst, dropped |-> FALSE]
\* the notification has aged by TickStep (ages beyond the delay are not told apart)
Aged(n, step) ==
  IF n.pending THEN [n EXCEPT !.elapsed = IF @ + step >= DebounceDelay
                                           THEN DebounceDelay ELSE @ + step]
  ELSE n

\* the activity of four snapshots in a row that the observer of edges looks for
EdgePattern == << FALSE, TRUE, TRUE, FALSE >>

\* h records recomputes whose activity begins as EdgePattern does
BeginsEdgePattern(h) ==
  /\ Len(h) <= Len(EdgePattern)
  /\ \A i \in 1..Len(h) : h[i].active = EdgePattern[i]

\* the recomputes of h from the k-th on
From(h, k) == SubSeq(h, k, Len(h))

\* h with the recompute e appended, cut to its longest end that begins as
\* EdgePattern does
Observed(h, e) ==
  LET g == Append(h, e)
      k == CHOOSE j \in 1..(Len(g) + 1) :
             /\ BeginsEdgePattern(From(g, j))
             /\ \A i \in 1..(j - 1) : ~BeginsEdgePattern(From(g, i))
  IN From(g, k)

(***************************************************************************)
(* The state after construction and the first connectedCallback.           *)
(***************************************************************************)
\* the message attributes and the message slot of the markup
MessageConfigs == { [above |-> TRUE, below |-> TRUE, el |-> TRUE] }

\* the attributes the markup gives the element: threshold and current as
\* parseFloat reads them, variant-id as getAttribute returns it, promo-ended
\* and the messages by their presence
Attributes ==
  { [threshold |-> th, current |-> cu, variantId |-> v, promoEnded |-> p,
     messageAbove |-> m.above, messageBelow |-> m.below] :
      th \in ThresholdAttrs, cu \in CurrentInputs, v \in VariantInputs, p \in BOOLEAN,
      m \in MessageConfigs }

\* no attribute has been written since construction
NotWritten == [name |-> "", amount |-> NaNArg, text |-> Null, present |-> FALSE]

\* constructor reading one of the attribute sets given, then the #render of
\* connectedCallback
ConstructedWith(given) ==
  /\ \E attrs \in given :
       /\ threshold = ParseFloatOr0(attrs.threshold)
       /\ currentAmount = ParseFloatOr0(attrs.current)
       /\ variantId = attrs.variantId
       /\ promoEnded = attrs.promoEnded
       /\ messageAbove = attrs.messageAbove
       /\ messageBelow = attrs.messageBelow
  /\ written = NotWritten
  /\ isActive = FALSE
  /\ isAdded = FALSE
  /\ hasMessageEl \in { m.el : m \in MessageConfigs }
  /\ stateAttr = ""
  /\ display = ""
  /\ message =
       UpdateMessages(
         [ threshold |-> threshold, currentAmount |-> currentAmount,
           isActive |-> FALSE, isAdded |-> FALSE, stateAttr |-> "", display |-> "",
           message |-> SlotUntouched, reqs |-> << >>, evs |-> << >> ]).message
  /\ debounceTimer = 0
  /\ inflight = EmptyBag
  /\ requests = << >>
  /\ events = << >>
  /\ uncaught = FALSE

Constructed == ConstructedWith(Attributes)

\* the attribute sets with a threshold attribute of any sign
AnyAttributes ==
  { [a EXCEPT !.threshold = th] : a \in Attributes, th \in AnyThresholds }

\* what the page can write to the element's attributes: an amount for
\* threshold and current, a text for variant-id, the presence of promo-ended
\* and of the messages
AttributeWrites ==
  { [NotWritten EXCEPT !.name = n, !.amount = a, !.present = TRUE] :
      n \in {"threshold", "current"}, a \in AnyThresholds }
  \cup { [NotWritten EXCEPT !.name = "variant-id", !.text = Str(v), !.present = TRUE] :
           v \in {GiftVariant, OtherVariant} }
  \cup { [NotWritten EXCEPT !.name = n, !.present = p] :
           n \in {"promo-ended", "message-above", "message-below"}, p \in BOOLEAN }

\* the #attachListeners of connectedCallback, the element being inside a
\* cart-dialog (inHost) or not
Attached(inHost) ==
  /\ connected = TRUE
  /\ hostInDom = inHost
  /\ cartDialog = inHost
  /\ listening = inHost
  /\ timers = IF inHost THEN {} ELSE { RetryTimerOf(1) }

\* the element as the markup of a cart-dialog creates it
Init ==
  /\ Constructed
  /\ Attached(TRUE)
  /\ lastNotified = NotNotified
  /\ lastProcessed = << >>
  /\ hist = << >>

(***************************************************************************)
(* The operations.                                                         *)
(***************************************************************************)
\* #handleCartDataChange that leaves the pending debounce timer running
HandleCartDataChange_KeepsPending(hasDetail, cart) ==
  /\ listening
  /\ IF ~hasDetail \/ cart.subtotal.k = "undef"
       THEN UNCHANGED << debounceTimer, timers >>
       ELSE LET id == CHOOSE n \in 1..(Cardinality(timers) + 1) : n \notin TimerIds
            IN /\ timers' = timers \cup { DebounceTimerOf(id, cart) }
               /\ debounceTimer' = id
  /\ Quiet
  /\ UNCHANGED << markup, fields, config, dom, inflight, cartDialog, connected, hostInDom, listening >>

\* #handleCartDataChange that clears the pending debounce timer before it
\* looks at the detail
HandleCartDataChange_ClearsFirst(hasDetail, cart) ==
  /\ listening
  /\ LET cleared == IF debounceTimer # 0 THEN ClearTimeout(timers, debounceTimer)
                                         ELSE timers
     IN IF ~hasDetail \/ cart.subtotal.k = "undef"
          THEN timers' = cleared /\ debounceTimer' = debounceTimer
          ELSE LET id == CHOOSE n \in 1..(Cardinality(cleared) + 1) :
                           n \notin { t.id : t \in cleared }
               IN /\ timers' = cleared \cup { DebounceTimerOf(id, cart) }
                  /\ debounceTimer' = id
  /\ Quiet
  /\ UNCHANGED << markup, fields, config, dom, inflight, cartDialog, connected, hostInDom, listening >>

\* #handleCartDataChange, the host having dispatched cart-dialog:data-changed
\* with event.detail = detail (hasDetail FALSE: no detail)
HandleCartDataChange(hasDetail, cart) ==
  /\ listening
  /\ IF ~hasDetail \/ cart.subtotal.k = "undef"
       THEN UNCHANGED << debounceTimer, timers >>
       ELSE LET cleared == IF debounceTimer # 0 THEN ClearTimeout(timers, debounceTimer)
                                                ELSE timers
                id == CHOOSE n \in 1..(Cardinality(cleared) + 1) :
                        n \notin { t.id : t \in cleared }
            IN /\ timers' = cleared \cup { DebounceTimerOf(id, cart) }
               /\ debounceTimer' = id
  /\ Quiet
  /\ UNCHANGED << markup, fields, config, dom, inflight, cartDialog, connected, hostInDom, listening >>

\* time passes: every pending timer comes step closer to its delay
Tick(step) ==
  /\ \E t \in timers : t.remaining > 0
  /\ timers' = { [t EXCEPT !.remaining = Max(0, @ - step)] : t \in timers }
  /\ Quiet
  /\ UNCHANGED << markup, fields, config, dom, inflight, cartDialog, debounceTimer, connected,
                  hostInDom, listening >>

\* the callback of the debounce timer t
DebounceFire(t) ==
  /\ t \in timers
  /\ t.kind = "debounce"
  /\ t.remaining = 0
  /\ timers' = timers \ {t}
  /\ debounceTimer' = 0
  /\ UNCHANGED << markup, variantId, promoEnded, config, cartDialog, connected, hostInDom, listening >>
  /\ Commit(ProcessSnapshot(Cur, t.cart))

\* setCurrentAmount(amount)
SetCurrentAmount(amount) ==
  /\ UNCHANGED << markup, variantId, promoEnded, config, wiring >>
  /\ Commit(SetCurrentAmountBody(Cur, amount))

\* setThreshold(amount)
SetThreshold(amount) ==
  /\ UNCHANGED << markup, variantId, promoEnded, config, wiring >>
  /\ Commit(SetThresholdBody(Cur, amount))

\* setVariantId taking the gift of the former variant as not added
SetVariantId_ClearsIsAdded(id) ==
  /\ variantId' = id
  /\ isAdded' = FALSE
  /\ Quiet
  /\ UNCHANGED << markup, threshold, currentAmount, isActive, promoEnded, config, wiring,
                  dom, inflight >>

\* setVariantId(id)
SetVariantId(id) ==
  /\ variantId' = id
  /\ Quiet
  /\ UNCHANGED << markup, threshold, currentAmount, isActive, isAdded, promoEnded, config, wiring,
                  dom, inflight >>

\* the rest of #addGiftToCart without its check of res.ok
AddSettles_NoStatusCheck(outcome) ==
  /\ BagIn("add", inflight)
  /\ inflight' = inflight (-) SetToBag({"add"})
  /\ requests' = << >>
  /\ uncaught' = uncaught
  /\ IF outcome \in {"ok", "http"}
       THEN /\ isAdded' = TRUE
            /\ events' = << GwpAdded(variantId) >>
       ELSE /\ isAdded' = isAdded
            /\ events' = << GwpError("add") >>
  /\ UNCHANGED << markup, threshold, currentAmount, variantId, isActive, promoEnded, config,
                  wiring, dom >>

\* the rest of #addGiftToCart: the fetch of an add call has settled
AddSettles(outcome) ==
  /\ BagIn("add", inflight)
  /\ inflight' = inflight (-) SetToBag({"add"})
  /\ requests' = << >>
  /\ uncaught' = uncaught
  /\ IF outcome = "ok"
       THEN /\ isAdded' = TRUE
            /\ events' = << GwpAdded(variantId) >>
       ELSE /\ isAdded' = isAdded
            /\ events' = << GwpError("add") >>
  /\ UNCHANGED << markup, threshold, currentAmount, variantId, isActive, promoEnded, config,
                  wiring, dom >>

\* #removeAllGiftItems clearing #isAdded in its catch block as well
RemoveSettles_ClearsAnyway(met) ==
  /\ BagIn("remove", inflight)
  /\ inflight' = inflight (-) SetToBag({"remove"})
  /\ requests' = << >>
  /\ uncaught' = uncaught
  /\ isAdded' = FALSE
  /\ events' = IF "net" \in met THEN << GwpError("remove") >> ELSE << GwpRemoved(variantId) >>
  /\ UNCHANGED << markup, threshold, currentAmount, variantId, isActive, promoEnded, config,
                  wiring, dom >>

\* the rest of #removeAllGiftItems: Promise.all over the fetches of a removal
\* has settled, met being the outcomes its fetches have met. fetch fulfils
\* on every response, whatever its status; only a rejected fetch rejects
\* Promise.all
RemoveSettles(met) ==
  /\ BagIn("remove", inflight)
  /\ inflight' = inflight (-) SetToBag({"remove"})
  /\ requests' = << >>
  /\ uncaught' = uncaught
  /\ IF "net" \in met
       THEN /\ isAdded' = isAdded
            /\ events' = << GwpError("remove") >>
       ELSE /\ isAdded' = FALSE
            /\ events' = << GwpRemoved(variantId) >>
  /\ UNCHANGED << markup, threshold, currentAmount, variantId, isActive, promoEnded, config,
                  wiring, dom >>

\* setAttribute or removeAttribute on the element after construction. The
\* class declares observedAttributes and no attributeChangedCallback, and
\* the constructor alone reads attributes: no code of the element runs
SetAttribute(w) ==
  /\ written' = w
  /\ Quiet
  /\ UNCHANGED << fields, config, wiring, dom, inflight >>

\* disconnectedCallback: the element leaves the document, alone or inside
\* a removed subtree that holds its cart-dialog too (keepsHost)
DisconnectedCallback(keepsHost) ==
  /\ connected
  /\ connected' = FALSE
  /\ hostInDom' = (hostInDom /\ keepsHost)
  /\ timers' = IF debounceTimer # 0 THEN ClearTimeout(timers, debounceTimer) ELSE timers
  /\ listening' = IF cartDialog THEN FALSE ELSE listening
  /\ Quiet
  /\ UNCHANGED << markup, fields, config, dom, inflight, cartDialog, debounceTimer >>

\* connectedCallback of an element put back into the document, inside a
\* cart-dialog (inHost) or not: #render and #attachListeners
ConnectedCallback(inHost) ==
  /\ ~connected
  /\ connected' = TRUE
  /\ hostInDom' = inHost
  /\ cartDialog' = inHost
  /\ listening' = (listening \/ inHost)
  /\ timers' = IF inHost THEN timers
               ELSE timers \cup { RetryTimerOf(NewTimerId(debounceTimer)) }
  /\ message' = UpdateMessages(Cur).message
  /\ Quiet
  /\ UNCHANGED << markup, fields, config, inflight, debounceTimer, stateAttr, display >>

\* the element gets a cart-dialog ancestor without connectedCallback
\* running: the DOM was not ready at attach time, or the detached element is
\* put into a cart-dialog that is not in the document
HostReady ==
  /\ ~hostInDom
  /\ hostInDom' = TRUE
  /\ Quiet
  /\ UNCHANGED << markup, fields, config, dom, inflight, cartDialog, debounceTimer, connected,
                  listening, timers >>

\* the retry callback that tries once more when the host is still absent
RetryFire_RetriesAgain(t) ==
  /\ t \in timers
  /\ t.kind = "retry"
  /\ t.remaining = 0
  /\ timers' = IF hostInDom THEN timers \ {t} ELSE (timers \ {t}) \cup { RetryTimerOf(t.id) }
  /\ cartDialog' = hostInDom
  /\ listening' = (listening \/ hostInDom)
  /\ Quiet
  /\ UNCHANGED << markup, fields, config, dom, inflight, debounceTimer, connected, hostInDom >>

\* the callback of the retry timer t of #attachListeners
RetryFire(t) ==
  /\ t \in timers
  /\ t.kind = "retry"
  /\ t.remaining = 0
  /\ timers' = timers \ {t}
  /\ cartDialog' = hostInDom
  /\ listening' = (listening \/ hostInDom)
  /\ Quiet
  /\ UNCHANGED << markup, fields, config, dom, inflight, debounceTimer, connected, hostInDom >>

(***************************************************************************)
(* The specification: the instance with its host, the gateway and the      *)
(* embedding application.                                                  *)
(***************************************************************************)
\* a notification the handler accepts
IsValidDetail(hasDetail, cart) == hasDetail /\ cart.subtotal.k # "undef"

\* the host dispatches cart-dialog:data-changed
Notify(hasDetail, cart) ==
  /\ HandleCartDataChange(hasDetail, cart)
  /\ lastNotified' = IF IsValidDetail(hasDetail, cart) THEN Notified(cart, FALSE)
                                                       ELSE lastNotified
  /\ UNCHANGED << lastProcessed, hist >>

NotifyNoDetail == Notify(FALSE, NoSubtotalCart)

NotifyCart == \E cart \in ValidCarts \cup {NoSubtotalCart} : Notify(TRUE, cart)

TimePasses ==
  /\ Tick(TickStep)
  /\ lastNotified' = Aged(lastNotified, TickStep)
  /\ UNCHANGED << lastProcessed, hist >>

TimerRuns ==
  /\ \E t \in timers : DebounceFire(t)
  /\ lastNotified' = NotNotified
  /\ UNCHANGED << lastProcessed, hist >>

CallSetCurrentAmount == (\E a \in CurrentInputs : SetCurrentAmount(a)) /\ UNCHANGED observers

CallSetThreshold == (\E a \in ThresholdInputs : SetThreshold(a)) /\ UNCHANGED observers

CallSetVariantId == (\E id \in VariantInputs : SetVariantId(id)) /\ UNCHANGED observers

AddResponse == (\E o \in AddOutcomes : AddSettles(o)) /\ UNCHANGED observers

RemoveResponse == (\E met \in RemovalOutcomes : RemoveSettles(met)) /\ UNCHANGED observers

Next ==
  \/ NotifyNoDetail
  \/ NotifyCart
  \/ TimePasses
  \/ TimerRuns
  \/ CallSetCurrentAmount
  \/ CallSetThreshold
  \/ CallSetVariantId
  \/ AddResponse
  \/ RemoveResponse

Spec == Init /\ [][Next]_vars

(***************************************************************************)
(* The instance driven by cart snapshots and setCurrentAmount, time        *)
(* passing in halves of the debounce delay, the observer telling the       *)
(* notifications of a burst from a single one.                             *)
(***************************************************************************)
NotifyInBurst ==
  \E cart \in ValidCarts \cup {NoSubtotalCart} :
    /\ HandleCartDataChange(TRUE, cart)
    /\ lastNotified' = IF IsValidDetail(TRUE, cart) THEN Notified(cart, lastNotified.pending)
                                                    ELSE lastNotified
    /\ UNCHANGED << lastProcessed, hist >>

TimerRunsAfterBurst ==
  /\ \E t \in timers : DebounceFire(t)
  /\ lastNotified' = [NotNotified EXCEPT !.burst = lastNotified.burst]
  /\ UNCHANGED << lastProcessed, hist >>

\* half a debounce delay passes
HalfDelayPasses ==
  /\ Tick(HalfDelay)
  /\ lastNotified' = Aged(lastNotified, HalfDelay)
  /\ UNCHANGED << lastProcessed, hist >>

NextDebounce ==
  \/ NotifyNoDetail
  \/ NotifyInBurst
  \/ HalfDelayPasses
  \/ TimerRunsAfterBurst
  \/ CallSetCurrentAmount
  \/ AddResponse
  \/ RemoveResponse

SpecDebounce == Init /\ [][NextDebounce]_vars

(***************************************************************************)
(* The instance driven by cart snapshots alone, the observers recording    *)
(* what each processed snapshot caused.                                    *)
(***************************************************************************)
\* what the recompute of the snapshot cart has just done
Recompute(cart) ==
  [ active |-> isActive', adds |-> CountKind(requests', "add"),
    removals |-> CountKind(requests', "remove"),
    gift |-> cart.hasItems /\ Truthy(variantId) /\ Len(GiftLines(cart.items, variantId)) > 0 ]

\* the observer keeps the snapshot processed last and the calls it caused
TimerRunsRemembered ==
  \E t \in timers :
    /\ DebounceFire(t)
    /\ lastNotified' = NotNotified
    /\ lastProcessed' = << [cart |-> t.cart, calls |-> Len(requests')] >>
    /\ UNCHANGED hist

NextIdem ==
  \/ NotifyNoDetail
  \/ NotifyCart
  \/ TimePasses
  \/ TimerRunsRemembered
  \/ AddResponse
  \/ RemoveResponse

SpecIdem == Init /\ [][NextIdem]_vars

\* the observer keeps the recomputes that may begin the pattern of activity
TimerRunsRecorded ==
  \E t \in timers :
    /\ DebounceFire(t)
    /\ lastNotified' = NotNotified
    /\ hist' = Observed(hist, Recompute(t.cart))
    /\ UNCHANGED lastProcessed

NextEdge ==
  \/ NotifyNoDetail
  \/ NotifyCart
  \/ TimePasses
  \/ TimerRunsRecorded
  \/ AddResponse
  \/ RemoveResponse

SpecEdge == Init /\ [][NextEdge]_vars

(***************************************************************************)
(* The instance driven by cart snapshots, well-formed or not, the observer *)
(* noting the notifications the handler dropped.                           *)
(***************************************************************************)
\* the host dispatches the event without a detail, or with a detail that has
\* no calculated_subtotal
NotifyDropped ==
  /\ \E hasDetail \in BOOLEAN : HandleCartDataChange(hasDetail, NoSubtotalCart)
  /\ lastNotified' = [lastNotified EXCEPT !.dropped = TRUE]
  /\ UNCHANGED << lastProcessed, hist >>

\* the observer keeps what it noted of the notifications before the recompute
TimerRunsAfterDropped ==
  /\ \E t \in timers : DebounceFire(t)
  /\ lastNotified' = [NotNotified EXCEPT !.dropped = lastNotified.dropped]
  /\ UNCHANGED << lastProcessed, hist >>

NextMalformed ==
  \/ NotifyDropped
  \/ NotifyCart
  \/ HalfDelayPasses
  \/ TimerRunsAfterDropped
  \/ AddResponse
  \/ RemoveResponse

SpecMalformed == Init /\ [][NextMalformed]_vars

(***************************************************************************)
(* The instance driven by its configuration alone: the attributes written  *)
(* by the page and the setters, with thresholds of any sign.               *)
(***************************************************************************)
InitConfig ==
  /\ ConstructedWith(AnyAttributes)
  /\ Attached(TRUE)
  /\ lastNotified = NotNotified
  /\ lastProcessed = << >>
  /\ hist = << >>

WriteAttribute == (\E w \in AttributeWrites : SetAttribute(w)) /\ UNCHANGED observers

CallSetThresholdAny == (\E a \in AnyThresholds : SetThreshold(a)) /\ UNCHANGED observers

NextConfig ==
  \/ WriteAttribute
  \/ CallSetThresholdAny
  \/ CallSetCurrentAmount
  \/ CallSetVariantId
  \/ AddResponse

SpecConfig == InitConfig /\ [][NextConfig]_vars

(***************************************************************************)
(* The instance through its life in the document: attached with or without *)
(* a host, removed, put back, its timers running whenever they are due.    *)
(***************************************************************************)
\* the snapshots the host sends: without a line or with the marked gift line
LifeCarts == { c \in CartsWithItems : c.items \in { << >>, << Pool[2] >> } }

\* the markup of the instance followed through its life: a threshold and
\* the gift's variant are configured
LifeAttributes ==
  { a \in Attributes : a.threshold # NaNArg /\ a.variantId = Str(GiftVariant) }

InitLife ==
  /\ ConstructedWith(LifeAttributes)
  /\ \E inHost \in BOOLEAN : Attached(inHost)
  /\ lastNotified = NotNotified
  /\ lastProcessed = << >>
  /\ hist = << >>

\* the host notifies the listener it holds
HostNotifies == (\E cart \in LifeCarts : HandleCartDataChange(TRUE, cart)) /\ UNCHANGED observers

DelayPasses == Tick(TickStep) /\ UNCHANGED observers

DebounceRuns == (\E t \in timers : DebounceFire(t)) /\ UNCHANGED observers

RetryRuns == (\E t \in timers : RetryFire(t)) /\ UNCHANGED observers

Removed == (\E keepsHost \in BOOLEAN : DisconnectedCallback(keepsHost)) /\ UNCHANGED observers

\* the element is put back while fewer than MaxTimers timers are pending
PutBack ==
  /\ Cardinality(timers) < MaxTimers
  /\ \E inHost \in BOOLEAN : ConnectedCallback(inHost)
  /\ UNCHANGED observers

HostAppears == HostReady /\ UNCHANGED observers

NextLife ==
  \/ HostNotifies
  \/ DelayPasses
  \/ DebounceRuns
  \/ RetryRuns
  \/ Removed
  \/ PutBack
  \/ HostAppears
  \/ CallSetCurrentAmount
  \/ AddResponse
  \/ RemoveResponse

SpecLife == InitLife /\ [][NextLife]_vars

(***************************************************************************)
(* What the claims speak of.                                               *)
(***************************************************************************)
\* the gift lines of a snapshot, as the handlers find them: none when the
\* snapshot has no items list or no variant is configured
SnapshotGiftLines(cart) ==
  IF cart.hasItems /\ Truthy(variantId) THEN GiftLines(cart.items, variantId) ELSE << >>

\* this step is the recompute of the snapshot held by the debounce timer t
ProcessesSnapshot(t) == t \in timers /\ DebounceFire(t)

\* this step is a recompute driven by a setter
SetterRecomputes ==
  \/ \E a \in CurrentInputs : SetCurrentAmount(a)
  \/ \E a \in ThresholdInputs : SetThreshold(a)

\* this step is a recompute
Recomputes == (\E t \in timers : ProcessesSnapshot(t)) \/ SetterRecomputes

\* the add requests and the removals (one per #removeAllGiftItems) this step issued
AddsIssued == CountKind(requests', "add")
RemovalsIssued == CountKind(requests', "remove")

\* isActive is what the threshold rule says
ActiveAsRuled == isActive = (currentAmount >= threshold /\ ~promoEnded)

\* C1: in every reachable state, right after construction and attach
\* included, isActive is true exactly when currentAmount >= threshold and
\* promoEnded is false.
C1_ActiveIffThresholdMet == ActiveAsRuled

\* the recomputes the observer of edges holds show the whole pattern, the
\* promo not ended and a variant configured
EdgeSeen == Len(hist) = Len(EdgePattern) /\ ~promoEnded /\ Truthy(variantId)

\* the add requests and the removals of the recomputes held
RECURSIVE AddsOver(_)
AddsOver(h) == IF h = << >> THEN 0 ELSE Head(h).adds + AddsOver(Tail(h))
RECURSIVE RemovalsOver(_)
RemovalsOver(h) == IF h = << >> THEN 0 ELSE Head(h).removals + RemovalsOver(Tail(h))

\* C2 as stated: over four processed snapshots in a row whose activity goes
\* inactive, active, active, inactive (promo not ended, variant configured),
\* exactly one add request and exactly one removal are issued.
C2_OneAddOneRemoval ==
  EdgeSeen => AddsOver(hist) = 1 /\ RemovalsOver(hist) = 1

\* C2 amended: over such four snapshots the first issues no add; the second
\* issues no removal and exactly one add unless it holds a gift line, then
\* none; the third issues nothing; the fourth issues no add and exactly one
\* removal if it holds a gift line, else none. So never two adds, and a
\* removal only where there is a gift line to remove.
C2_EdgeTriggered ==
  EdgeSeen =>
    /\ hist[1].adds = 0
    /\ hist[2].adds = (IF hist[2].gift THEN 0 ELSE 1) /\ hist[2].removals = 0
    /\ hist[3].adds = 0 /\ hist[3].removals = 0
    /\ hist[4].adds = 0 /\ hist[4].removals = (IF hist[4].gift THEN 1 ELSE 0)
    /\ AddsOver(hist) <= 1

\* four snapshots in a row went inactive, active, active, inactive, the
\* second added the gift and the fourth removed it
C2_Witness ==
  /\ EdgeSeen
  /\ hist[2].adds = 1
  /\ hist[3].gift
  /\ hist[4].removals = 1

\* C3: for every snapshot and configuration, promoEnded with a gift line in
\* the snapshot included, the same snapshot processed twice in a row causes
\* at most one gateway call over both recomputes (a bulk removal counting as
\* one call).
C3_SameSnapshotTwice ==
  [][ \A t \in timers :
        /\ ProcessesSnapshot(t)
        /\ lastProcessed # << >>
        /\ lastProcessed[1].cart = t.cart
        => lastProcessed[1].calls + Len(requests') <= 1 ]_vars

\* this step is a valid notification: the observer has just noted a snapshot
ValidNotification ==
  /\ lastNotified'.pending
  /\ lastNotified'.elapsed = 0
  /\ lastNotified' # lastNotified

\* the debounce timers pending in ts
DebounceTimers(ts) == { t \in ts : t.kind = "debounce" }

\* C4: a valid notification changes neither currentAmount nor isAdded,
\* issues no gateway request and leaves exactly one debounce timer pending,
\* set to the full delay and holding the snapshot just delivered; a snapshot
\* is processed only when a full delay has passed since the last
\* notification, it is that notification's snapshot, currentAmount and
\* isAdded come from its subtotal and items, a removal names only its gift
\* lines, and no debounce timer is left pending, so that a burst of
\* notifications causes one recompute, of its last snapshot.
C4_DebounceCollapses ==
  [][ /\ ValidNotification =>
           /\ currentAmount' = currentAmount
           /\ isAdded' = isAdded
           /\ requests' = << >>
           /\ \E id \in TimerIds \cup {1} :
                DebounceTimers(timers') = { DebounceTimerOf(id, lastNotified'.cart) }
      /\ \A t \in timers :
           ProcessesSnapshot(t) =>
             /\ lastNotified.pending
             /\ lastNotified.elapsed = DebounceDelay
             /\ t.cart = lastNotified.cart
             /\ currentAmount' = ParseFloatOr0(lastNotified.cart.subtotal)
             /\ isAdded' = (Len(SnapshotGiftLines(lastNotified.cart)) > 0)
             /\ \A i \in 1..Len(requests') :
                  requests'[i].kind = "remove" =>
                    requests'[i].keys = LineKeys(SnapshotGiftLines(lastNotified.cart))
             /\ DebounceTimers(timers') = {} ]_vars

\* the one recompute of a burst of notifications has run and issued the add
C4_Witness ==
  /\ ~lastNotified.pending
  /\ lastNotified.burst
  /\ debounceTimer = 0
  /\ requests = << AddCall(variantId) >>

\* the transition decision of a recompute, the gift being present or not
DecidesByEdge(present) ==
  /\ AddsIssued = IF ~isActive /\ isActive' /\ ~present /\ Truthy(variantId) THEN 1 ELSE 0
  /\ RemovalsIssued = IF isActive /\ ~isActive' /\ present /\ Truthy(variantId) THEN 1 ELSE 0

\* C5 as stated: with the promo not ended, every recompute (of a snapshot, the
\* gift being present iff the snapshot holds a gift line; of a setter, the
\* gift being present iff isAdded) issues an add iff isActive goes from false
\* to true, the gift is not present and a variant is configured, a removal
\* iff isActive goes from true to false, the gift is present and a variant
\* is configured, and nothing else.
C5_DecisionOfEveryRecompute ==
  [][ ~promoEnded =>
        /\ \A t \in timers :
             ProcessesSnapshot(t) => DecidesByEdge(Len(SnapshotGiftLines(t.cart)) > 0)
        /\ SetterRecomputes => DecidesByEdge(isAdded) ]_vars

\* C5 amended: with the promo not ended, the recompute of a processed
\* snapshot decides as stated; the recompute of a setter issues an add under
\* the same condition (the gift being present iff isAdded) and never a
\* removal. A processed snapshot at or above the threshold without a gift
\* line, met while isActive is false and a variant is configured, issues
\* exactly one add; one below the threshold without a gift line issues none.
C5_DecisionOfSnapshotRecompute ==
  [][ ~promoEnded =>
        /\ \A t \in timers :
             ProcessesSnapshot(t) =>
               /\ DecidesByEdge(Len(SnapshotGiftLines(t.cart)) > 0)
               /\ Len(requests') <= 1
               /\ ( /\ ParseFloatOr0(t.cart.subtotal) >= threshold
                    /\ Len(SnapshotGiftLines(t.cart)) = 0
                    /\ ~isActive /\ Truthy(variantId)
                    => requests' = << AddCall(variantId) >> )
               /\ ( /\ ParseFloatOr0(t.cart.subtotal) < threshold
                    /\ Len(SnapshotGiftLines(t.cart)) = 0
                    => requests' = << >> )
        /\ SetterRecomputes =>
             /\ AddsIssued = IF ~isActive /\ isActive' /\ ~isAdded /\ Truthy(variantId)
                               THEN 1 ELSE 0
             /\ RemovalsIssued = 0 ]_vars

\* a recompute has just issued the add request, the promo not being ended
C5_Witness ==
  /\ ~promoEnded
  /\ requests = << AddCall(variantId) >>
  /\ isActive
  /\ ~isAdded

\* C6: with promoEnded set, every processed snapshot that holds a matching
\* gift line results in a removal request for exactly those lines, whatever
\* its subtotal and whatever isActive was; and isActive is false afterwards.
C6_PromoEndedRemoves ==
  [][ \A t \in timers :
        ProcessesSnapshot(t) /\ promoEnded /\ Len(SnapshotGiftLines(t.cart)) > 0 =>
          /\ \E i \in 1..Len(requests') :
               requests'[i] = RemoveCall(SnapshotGiftLines(t.cart))
          /\ ~isActive' ]_vars

\* with the promo ended, a snapshot at the threshold holding a gift line has
\* just been processed
C6_Witness ==
  /\ promoEnded
  /\ currentAmount >= threshold
  /\ CountKind(requests, "remove") > 0
  /\ ~isActive

\* this step handles the response to an add request that failed
AddFails == \E o \in AddOutcomes \ {"ok"} : AddSettles(o)

\* C7: when an add request fails, isAdded is left as it is (so it remains
\* false), exactly one gwp:error with action add and no gwp:added is
\* dispatched, isActive is not rolled back, no exception escapes and no add
\* is reissued; any add request at all is issued by a step that takes
\* isActive from false to true.
C7_AddFailure ==
  [][ /\ AddFails =>
           /\ isAdded' = isAdded
           /\ events' = << GwpError("add") >>
           /\ isActive' = isActive
           /\ ~uncaught'
           /\ requests' = << >>
      /\ AddsIssued > 0 => ~isActive /\ isActive' ]_vars

\* an add request has just failed
C7_Witness ==
  /\ events = << GwpError("add") >>
  /\ ~isAdded
  /\ isActive
  /\ ~uncaught

\* C8: if any remove-line request of a bulk removal receives a non-2xx
\* response, the removal is reported by one gwp:error with action remove
\* and no gwp:removed is dispatched.
C8_RemovalNeedsEvery2xx ==
  [][ \A met \in RemovalOutcomes :
        RemoveSettles(met) /\ "http" \in met => events' = << GwpError("remove") >> ]_vars

\* C9: when any remove-line request of a removal fails (a non-2xx response
\* or a transport failure), the step that handles it leaves isAdded as it was.
C9_FailedRemovalKeepsIsAdded ==
  [][ \A met \in RemovalOutcomes :
        RemoveSettles(met) /\ met # {"ok"} => isAdded' = isAdded ]_vars

\* C10: while variantId is null or empty, no step issues a gateway request,
\* with promoEnded set or not, and every recompute still derives isActive from
\* currentAmount and threshold.
C10_NoVariantNoGateway ==
  [][ ~Truthy(variantId) =>
        /\ requests' = << >>
        /\ Recomputes => isActive' = (currentAmount' >= threshold' /\ ~promoEnded') ]_vars

\* with no variant configured a recompute has made the instance active, and
\* with the promo ended one has met the items of a snapshot
C10_Witness ==
  /\ ~Truthy(variantId)
  /\ \/ isActive /\ stateAttr = "active"
     \/ promoEnded /\ events = << GwpError("remove") >>

\* this step is the handling of a notification without a detail, or of one
\* whose detail has no calculated_subtotal
DropsNotification ==
  \E hasDetail \in BOOLEAN : HandleCartDataChange(hasDetail, NoSubtotalCart)

C12_NoItemsListNotPresent ==
  [][ \A t \in timers :
        ProcessesSnapshot(t) /\ ~t.cart.hasItems =>
          /\ ~isAdded'
          /\ RemovalsIssued = 0
          /\ CountEvents(events', "gwp:error", "remove") = 0
          /\ CountEvents(events', "gwp:error", "add") = 0 ]_vars

\* C18: after every recompute the state attribute is the label of the live
\* state (ended if promoEnded, else added if isAdded, else active if
\* isActive, else inactive), and the element is hidden exactly when that
\* label is ended; so after a recompute that leaves isActive and isAdded
\* false the label is neither active nor added.
C18_LabelOfLiveState ==
  [][ Recomputes =>
        LET label == IF promoEnded' THEN "ended"
                     ELSE IF isAdded' THEN "added"
                     ELSE IF isActive' THEN "active"
                     ELSE "inactive"
        IN /\ stateAttr' = label
           /\ (display' = "none") = (label = "ended")
           /\ (~isActive' /\ ~isAdded' => stateAttr' \notin {"active", "added"}) ]_vars

\* C19: after the recompute of any snapshot whose subtotal is below the
\* threshold and which holds a matching gift line, a variant being
\* configured, a removal request for the snapshot's gift lines has been
\* issued, whatever happened before.
C19_RemovedWheneverBelow ==
  [][ \A t \in timers :
        /\ ProcessesSnapshot(t)
        /\ Truthy(variantId)
        /\ ParseFloatOr0(t.cart.subtotal) < threshold
        /\ Len(SnapshotGiftLines(t.cart)) > 0
        => \E i \in 1..Len(requests') :
             requests'[i] = RemoveCall(SnapshotGiftLines(t.cart)) ]_vars

\* the snapshot holds a line whose variant id, as a string, is the configured
\* variantId as a string, and whose properties mark it as the gift
HoldsMarkedGift(cart) ==
  /\ cart.hasItems
  /\ \E i \in 1..Len(cart.items) :
       /\ cart.items[i].variant_id.v = variantId.v
       /\ cart.items[i].gwp_item = "true"

\* C20: right after a snapshot has been processed, isAdded is true exactly
\* when a variant is configured and the snapshot's items hold a line of that
\* variant (compared as strings, so the number 12345678 matches the string
\* "12345678") marked _gwp_item "true"; a line of the variant without the
\* marker does not count.
C20_IsAddedIffMarkedGiftLine ==
  [][ \A t \in timers :
        ProcessesSnapshot(t) =>
          isAdded' = (Truthy(variantId) /\ HoldsMarkedGift(t.cart)) ]_vars

\* the snapshot processed last held the gift's variant twice, as a number
\* both times, once unmarked and once marked, the variant being configured
\* as a string, and isAdded is true
C20_Witness ==
  /\ lastProcessed # << >>
  /\ lastProcessed[1].cart.items = << Pool[1], Pool[2] >>
  /\ variantId = Str(GiftVariant)
  /\ isAdded
  /\ inflight = EmptyBag

\* the field an attribute configures holds what the attribute was given
FieldFollows(w) ==
  CASE w.name = "threshold" -> threshold' = ParseFloatOr0(w.amount)
    [] w.name = "current" -> currentAmount' = ParseFloatOr0(w.amount)
    [] w.name = "variant-id" -> variantId' = w.text
    [] w.name = "promo-ended" -> promoEnded' = w.present
    [] w.name = "message-above" -> messageAbove' = w.present
    [] w.name = "message-below" -> messageBelow' = w.present

\* C16: writing any of the attributes threshold, current, variant-id,
\* promo-ended, message-above, message-below after attach updates the field
\* it configures and recomputes: isActive is what currentAmount, threshold
\* and promoEnded then call for.
C16_AttributeChangeRecomputes ==
  [][ \A w \in AttributeWrites :
        SetAttribute(w) =>
          /\ FieldFollows(w)
          /\ isActive' = (currentAmount' >= threshold' /\ ~promoEnded') ]_vars

\* C17: threshold >= 0 in every reachable state, whatever the threshold
\* attribute held and whatever was passed to setThreshold.
C17_ThresholdNotNegative == threshold >= 0

\* the retry timers pending in ts
RetryTimers(ts) == { t \in ts : t.kind = "retry" }

\* this step is disconnectedCallback
TornDown == \E keepsHost \in BOOLEAN : DisconnectedCallback(keepsHost)

\* C13: teardown leaves no debounce timer pending and no listener held by
\* the host, so that no snapshot is processed for an instance that is out of
\* the document: neither one received before the removal nor one the host
\* sends afterwards.
C13_TeardownCancelsDebounce ==
  [][ /\ TornDown => DebounceTimers(timers') = {} /\ ~listening'
      /\ \A t \in timers : ProcessesSnapshot(t) => connected
      /\ ~connected /\ ~listening => ~listening' \/ connected' ]_vars

\* C14: teardown leaves no retry timer pending, so that the retry callback
\* never runs for an instance that is out of the document.
C14_TeardownCancelsRetry ==
  [][ /\ TornDown => RetryTimers(timers') = {}
      /\ \A t \in timers : RetryFire(t) => connected ]_vars

\* an attach that finds no host sets exactly one retry timer, of the retry
\* delay; the retry callback sets no timer and, the host being still
\* absent, attaches no listener and leaves #cartDialog null
OneRetry ==
  /\ ConnectedCallback(FALSE) =>
       /\ Cardinality(RetryTimers(timers')) = Cardinality(RetryTimers(timers)) + 1
       /\ \A t \in timers' \ timers : t.kind = "retry" /\ t.remaining = RetryDelay
  /\ \A t \in timers :
       RetryFire(t) =>
         /\ timers' = timers \ {t}
         /\ requests' = << >>
         /\ (~hostInDom => ~cartDialog' /\ listening' = listening)

C21_CompletionOrdering ==
  [][ /\ AddsIssued > 0 =>
           ~isAdded' /\ CountEvents(events', "gwp:added", "") = 0
      /\ CountEvents(events', "gwp:added", "") > 0 =>
           AddSettles("ok") /\ isAdded'
      /\ RemovalsIssued > 0 =>
           isAdded' /\ CountEvents(events', "gwp:removed", "") = 0
      /\ CountEvents(events', "gwp:removed", "") > 0 =>
           (\E met \in RemovalOutcomes : RemoveSettles(met)) /\ ~isAdded'
      /\ \A o \in AddOutcomes :
           AddSettles(o) =>
             events' = << GwpAdded(variantId) >> \/ events' = << GwpError("add") >> ]_vars

\* an add was in flight with isAdded still false, and its successful
\* response has set isAdded and dispatched gwp:added
C21_Witness ==
  /\ events = << GwpAdded(variantId) >>
  /\ isAdded
  /\ isActive
  /\ requests = << >>

\* getState().remainingAmount
RemainingAmount == Max(0, threshold - currentAmount)

\* C22: the remaining amount is max(0, threshold - currentAmount) and never
\* negative, in the value getState returns and in the amount substituted
\* into the below-threshold message whenever that message is rendered; with
\* threshold 75 and current 45 it is 30.
C22_RemainingNeverNegative ==
  /\ RemainingAmount >= 0
  /\ threshold = 7500 /\ currentAmount = 4500 => RemainingAmount = 3000
  /\ message.text = "below" => ~message.amount.neg

\* Shopify.currency.rate as a recompute may find it: the shop's own currency,
\* and a presentment currency worth half of it
CurrencyRates == {1, 2}

\* C23: on every recompute the threshold is multiplied by the currency rate
\* of that moment before it is compared with currentAmount, whatever the
\* rate is then.
C23_ThresholdConverted ==
  [][ \A rate \in CurrencyRates :
        Recomputes =>
          isActive' = (currentAmount' >= threshold' * rate /\ ~promoEnded') ]_vars

\* C24: one processed cart snapshot causes at most one removal of the gift
\* lines it holds (one remove-line request per matching line), promoEnded
\* set with gift lines in the snapshot included.
C24_OneRemovalPerSnapshot ==
  [][ \A t \in timers : ProcessesSnapshot(t) => RemovalsIssued <= 1 ]_vars

\* C26: the step in which a gateway call resolves renders the state label
\* from the flags it has updated: after a successful add the label is
\* added, and after a successful removal it is not added.
C26_RenderedOnResolution ==
  [][ /\ AddSettles("ok") => stateAttr' = "added"
      /\ (\E met \in RemovalOutcomes : RemoveSettles(met) /\ ~isAdded') =>
           stateAttr' # "added" ]_vars

\* C25 as stated: when a bulk removal has finished, isAdded is false whether
\* or not some of its requests failed, and a failure of any of them is
\* reported by a single gwp:error with action remove.
C25_ClearedWhateverFailed ==
  [][ \A met \in RemovalOutcomes :
        RemoveSettles(met) =>
          /\ ~isAdded'
          /\ met # {"ok"} => events' = << GwpError("remove") >> ]_vars

\* C25: the step in which a bulk removal finishes dispatches exactly one
\* event for it; when that is gwp:error with action remove, isAdded is left
\* as it was, and isAdded is cleared only together with gwp:removed.
C25_ClearedOnlyWithRemoved ==
  [][ \A met \in RemovalOutcomes :
        RemoveSettles(met) =>
          \/ events' = << GwpError("remove") >> /\ isAdded' = isAdded
          \/ events' = << GwpRemoved(variantId) >> /\ ~isAdded' ]_vars

\* a bulk removal has ended in gwp:error and the gift still counts as added
C25_Witness ==
  /\ events = << GwpError("remove") >>
  /\ isAdded
  /\ Truthy(variantId)
  /\ uncaught = FALSE

\* C27: a call of setCurrentAmount or setThreshold issues no gateway
\* request, neither an add nor a remove-line request, whatever the state
\* and the argument.
C27_SettersIssueNothing ==
  [][ SetterRecomputes => requests' = << >> ]_vars

\* C28: a call of setCurrentAmount or setThreshold leaves isAdded
\* unchanged, also when it takes the instance from active to inactive or
\* when promoEnded is set; isAdded changes only when a snapshot is processed
\* or a response to an add or a removal arrives.
C28_SettersKeepIsAdded ==
  [][ /\ SetterRecomputes => isAdded' = isAdded
      /\ isAdded' # isAdded =>
           \/ \E t \in timers : ProcessesSnapshot(t)
           \/ AddSettles("ok")
           \/ \E met \in RemovalOutcomes : RemoveSettles(met) ]_vars

\* the keys of the lines of a snapshot that are of the configured variant and
\* marked as the gift
MarkedGiftKeys(cart) ==
  { cart.items[i].key :
      i \in { j \in 1..Len(cart.items) :
                /\ cart.items[j].variant_id.v = variantId.v
                /\ cart.items[j].gwp_item = "true" } }

\* C29: every removal is issued by the processing of a snapshot, and its
\* remove-line requests target exactly the keys of the snapshot's lines that
\* are of the configured variant and carry the gift marker, one request per
\* such line; an unmarked line of the variant and a marked line of another
\* variant are never targeted.
C29_RemovalTargetsMarkedGiftLines ==
  [][ \A i \in 1..Len(requests') :
        requests'[i].kind = "remove" =>
          \E t \in timers :
            /\ ProcessesSnapshot(t)
            /\ requests'[i].keys = MarkedGiftKeys(t.cart)
            /\ requests'[i].keys # {} ]_vars

\* the snapshot processed last held the variant unmarked (k1) and marked
\* (k2), and the removal it caused targets k2 alone
C29_Witness ==
  /\ lastProcessed # << >>
  /\ lastProcessed[1].cart.items = << Pool[1], Pool[2] >>
  /\ CountKind(requests, "remove") > 0
  /\ \A i \in 1..Len(requests) : requests[i].keys = {Pool[2].key}

(***************************************************************************)
(* The instance inside its cart-dialog, removed from the document and put  *)
(* back into it, its setter called only while it is attached: a response   *)
(* that arrives while it is out of the document answers a request that was *)
(* in flight when it left.                                                 *)
(***************************************************************************)
InitTeardown ==
  /\ ConstructedWith(LifeAttributes)
  /\ Attached(TRUE)
  /\ lastNotified = NotNotified
  /\ lastProcessed = << >>
  /\ hist = << >>

PutBackInHost == ConnectedCallback(TRUE) /\ UNCHANGED observers

SetWhileAttached == connected /\ CallSetCurrentAmount

NextTeardown ==
  \/ HostNotifies
  \/ DelayPasses
  \/ DebounceRuns
  \/ Removed
  \/ PutBackInHost
  \/ SetWhileAttached
  \/ AddResponse
  \/ RemoveResponse

SpecTeardown == InitTeardown /\ [][NextTeardown]_vars

\* C30: the completion of an add or of a removal that was in flight when
\* the instance left the document, arriving while the instance is out of
\* the document, changes isAdded not and dispatches no event.
C30_NoCompletionAfterTeardown ==
  [][ ~connected /\ ( \/ \E o \in AddOutcomes : AddSettles(o)
                      \/ \E met \in RemovalOutcomes : RemoveSettles(met) ) =>
        isAdded' = isAdded /\ events' = << >> ]_vars

\* C31 as stated: at most one add request is outstanding at any time.
C31_OneAddOutstanding == CopiesIn("add", inflight) <= 1

\* C31: a step issues at most one add request, and only by taking isActive
\* from false to true with isAdded false; while an add request is pending
\* and the instance stays active no second add is issued, whereas a
\* recompute that makes the instance active again after it has gone
\* inactive issues one although the first is still pending.
C31_SecondAddNeedsNewEdge ==
  [][ /\ AddsIssued <= 1
      /\ AddsIssued > 0 => ~isActive /\ isActive' /\ ~isAdded'
      /\ BagIn("add", inflight) /\ isActive => AddsIssued = 0 ]_vars

\* two add requests are outstanding, the second issued by the step just
\* taken while the first was pending
C31_Witness ==
  /\ CopiesIn("add", inflight) = 2
  /\ CountKind(requests, "add") = 1
  /\ isActive
  /\ ~isAdded

\* C32: a recompute that issues no add and no remove-line request
\* dispatches no gwp:error, whatever the snapshot and the configuration,
\* promoEnded set with no variant configured and items in the snapshot
\* included.
C32_NoErrorWithoutRequest ==
  [][ Recomputes /\ requests' = << >> =>
        CountEvents(events', "gwp:error", "add") + CountEvents(events', "gwp:error", "remove") = 0 ]_vars

\* C33: while promoEnded is set, no step issues an add request and none is
\* ever outstanding, whatever the notifications and the setter calls.
C33_NoAddWhilePromoEnded ==
  [][ promoEnded => AddsIssued = 0 /\ ~BagIn("add", inflight') ]_vars

\* with the promo ended, a recompute has found the amount at the threshold,
\* a variant configured and the gift not added, and no add was issued
C33_Witness ==
  /\ promoEnded
  /\ stateAttr = "ended"
  /\ currentAmount >= threshold
  /\ Truthy(variantId)
  /\ ~isAdded
  /\ requests = << >>
  /\ inflight = EmptyBag

\* C34: a step that changes variantId is a call of setVariantId and changes
\* nothing else: currentAmount, threshold, isActive, isAdded, promoEnded and
\* the presentation stay, no timer is started, no request is issued and no
\* event dispatched; every add request issued and every gwp:added or
\* gwp:removed dispatched by a later step carries the variantId of that time.
C34_SetVariantIdFrame ==
  [][ /\ variantId' # variantId =>
           /\ UNCHANGED << threshold, currentAmount, isActive, isAdded, promoEnded >>
           /\ UNCHANGED << dom, config, wiring, inflight >>
           /\ requests' = << >>
           /\ events' = << >>
      /\ \A i \in 1..Len(requests') :
           requests'[i].kind = "add" => requests'[i].variant = variantId'
      /\ \A i \in 1..Len(events') :
           events'[i].type \in {"gwp:added", "gwp:removed"} =>
             events'[i].variantId = variantId' ]_vars

\* an add was issued for the configured variant, setVariantId then took the
\* variant away, and the gwp:added dispatched on the response carries the
\* variantId of that moment
C34_Witness ==
  /\ ~Truthy(variantId)
  /\ events = << GwpAdded(variantId) >>
  /\ isAdded
  /\ isActive

====
